---- MODULE Spec2Model ----
(***************************************************************************)
(* Model of the field validator: the validator registry, validateInput     *)
(* (evaluateRule) and validateRules (evaluateRuleSet).                     *)
(*                                                                         *)
(* A JavaScript string is a sequence of one-character strings.  An         *)
(* optional string (a possibly undefined value) is a record                *)
(* [def, s]; options are a record [def, message, pattern] of optionals.    *)
(* A message is a sequence of pieces: Lit(t) is text of a template literal *)
(* and Str(s) is a string value placed in it (or returned verbatim).       *)
(***************************************************************************)
EXTENDS Integers, Sequences, FiniteSets, TLC

\* Longest rule set drawn for validateRules.
MaxRules == 2

----------------------------------------------------------------------------
\* Characters and strings

DigitSeq == <<"0", "1", "2", "3", "4", "5", "6", "7", "8", "9">>
Digits == {DigitSeq[k] : k \in 1..10}
LowerCase == {"a", "b", "c", "d", "e", "f", "g", "h", "i", "j", "k", "l", "m",
              "n", "o", "p", "q", "r", "s", "t", "u", "v", "w", "x", "y", "z"}
UpperCase == {"A", "B", "C", "D", "E", "F", "G", "H", "I", "J", "K", "L", "M",
              "N", "O", "P", "Q", "R", "S", "T", "U", "V", "W", "X", "Y", "Z"}
Letters == LowerCase \cup UpperCase
\* The white space String.prototype.trim strips, on the model's alphabet.
WhiteSpace == {" "}
\* The class [!@#$%^&*)(+=._-] of the symbol rule.
SymbolChars == {"!", "@", "#", "$", "%", "^", "&", "*", ")", "(", "+", "=", ".", "_", "-"}
HexChars == Digits \cup {"a", "b", "c", "d", "e", "f", "A", "B", "C", "D", "E", "F"}

Undefined == [def |-> FALSE, s |-> <<>>]
Def(s) == [def |-> TRUE, s |-> s]
\* String(x): an undefined value reads "undefined" (template literals, RegExp.test).
ToStr(o) == IF o.def THEN o.s ELSE <<"u", "n", "d", "e", "f", "i", "n", "e", "d">>

Lit(t) == [lit |-> t, str |-> <<>>]
Str(s) == [lit |-> "", str |-> s]

AllIn(s, C) == \A k \in 1..Len(s) : s[k] \in C
Some(s, C) == \E k \in 1..Len(s) : s[k] \in C

RECURSIVE trimStart(_)
trimStart(s) == IF s # <<>> /\ Head(s) \in WhiteSpace THEN trimStart(Tail(s)) ELSE s

RECURSIVE trimEnd(_)
trimEnd(s) ==
    IF s # <<>> /\ s[Len(s)] \in WhiteSpace THEN trimEnd(SubSeq(s, 1, Len(s) - 1)) ELSE s

trim(s) == trimEnd(trimStart(s))

\* String.prototype.split(sep): every segment between separators; "" gives [""].
RECURSIVE split(_, _)
split(s, sep) ==
    IF \E k \in 1..Len(s) : s[k] = sep
    THEN LET k == CHOOSE k \in 1..Len(s) : s[k] = sep /\ \A j \in 1..(k - 1) : s[j] # sep
         IN  <<SubSeq(s, 1, k - 1)>> \o split(SubSeq(s, k + 1, Len(s)), sep)
    ELSE <<s>>

includes(list, x) == \E k \in 1..Len(list) : list[k] = x

DigitVal(c) == (CHOOSE k \in 1..10 : DigitSeq[k] = c) - 1

RECURSIVE DigitsValue(_)
DigitsValue(s) ==
    IF s = <<>> THEN 0 ELSE 10 * DigitsValue(SubSeq(s, 1, Len(s) - 1)) + DigitVal(s[Len(s)])

RECURSIVE Pow10(_)
Pow10(n) == IF n = 0 THEN 1 ELSE 10 * Pow10(n - 1)

\* Number(s), as the fraction num/den or NaN.  Exact on white space, decimal digits
\* and one decimal point; every other string of the model (none spells a sign, an
\* exponent, a radix prefix or Infinity) is NaN.
NaN == [nan |-> TRUE, num |-> 0, den |-> 1]
Number(s) ==
    LET t == trim(s)
        p == split(t, ".")
    IN  IF t = <<>> THEN [nan |-> FALSE, num |-> 0, den |-> 1]
        ELSE IF Len(p) = 1 /\ AllIn(t, Digits)
             THEN [nan |-> FALSE, num |-> DigitsValue(t), den |-> 1]
        ELSE IF Len(p) = 2 /\ AllIn(p[1], Digits) /\ AllIn(p[2], Digits)
                /\ Len(p[1]) + Len(p[2]) > 0
             THEN [nan |-> FALSE, num |-> DigitsValue(p[1] \o p[2]), den |-> Pow10(Len(p[2]))]
        ELSE NaN

\* x > y on numbers; a comparison with NaN is false.
NumGreater(x, y) == ~x.nan /\ ~y.nan /\ x.num * y.den > y.num * x.den

\* Decimal spelling of a natural number (an array index as a property key).
RECURSIVE ToDecimal(_)
ToDecimal(n) ==
    IF n < 10 THEN <<DigitSeq[n + 1]>> ELSE ToDecimal(n \div 10) \o <<DigitSeq[(n % 10) + 1]>>

----------------------------------------------------------------------------
\* The validator registry: the keys of `validators`

k_alphaNumeric == <<"a", "l", "p", "h", "a", "-", "n", "u", "m", "e", "r", "i", "c">>
k_email == <<"e", "m", "a", "i", "l">>
k_eq == <<"e", "q">>
k_float == <<"f", "l", "o", "a", "t">>
k_gt == <<"g", "t">>
k_hasInt == <<"h", "a", "s", "-", "i", "n", "t">>
k_in == <<"i", "n">>
k_lower == <<"l", "o", "w", "e", "r">>
k_lt == <<"l", "t">>
k_match == <<"m", "a", "t", "c", "h">>
k_max == <<"m", "a", "x">>
k_min == <<"m", "i", "n">>
k_mixedCase == <<"m", "i", "x", "e", "d", "C", "a", "s", "e">>
k_numeric == <<"n", "u", "m", "e", "r", "i", "c">>
k_phone == <<"p", "h", "o", "n", "e">>
k_required == <<"r", "e", "q", "u", "i", "r", "e", "d">>
k_symbol == <<"s", "y", "m", "b", "o", "l">>
k_upper == <<"u", "p", "p", "e", "r">>
k_uuid == <<"u", "u", "i", "d">>

ValidatorNames == {k_alphaNumeric, k_email, k_eq, k_float, k_gt, k_hasInt, k_in, k_lower, k_lt, k_match, k_max, k_min, k_mixedCase, k_numeric, k_phone, k_required, k_symbol, k_upper, k_uuid}

\* Property names every object literal inherits from Object.prototype: validators[name]
\* is truthy for them, and has no validate member.
k_toString == <<"t", "o", "S", "t", "r", "i", "n", "g">>
k_constructor == <<"c", "o", "n", "s", "t", "r", "u", "c", "t", "o", "r">>
InheritedNames == {k_toString, k_constructor}

validateNumeric(value) == value # <<>> /\ AllIn(value, Digits)

\* validateFunctionParam throws when the param is not numeric: TRUE iff it throws.
\* An undefined option is tested as the string "undefined".
validateFunctionParam(option) == ~validateNumeric(ToStr(option))

\* /^(?=.*[0-9])(?=.*[a-zA-Z])([a-zA-Z0-9]+)$/
isAlphaNumeric(val) ==
    val # <<>> /\ Some(val, Digits) /\ Some(val, Letters) /\ AllIn(val, Digits \cup Letters)

\* /^(?!\.)(?!.*\.\.)([A-Z0-9_+-\.]*)[A-Z0-9_+-]@([A-Z0-9][A-Z0-9\-]*\.)+[A-Z]{2,}$/i
\* (in the first class, +-\. is the range from "+" to ".").
isEmail(val) ==
    LET at == split(val, "@")
        labels == split(at[2], ".")
        n == Len(labels)
    IN  /\ Len(at) = 2
        /\ val[1] # "."
        /\ ~\E k \in 1..(Len(val) - 1) : val[k] = "." /\ val[k + 1] = "."
        /\ at[1] # <<>>
        /\ AllIn(at[1], Letters \cup Digits \cup {"_", "+", ",", "-", "."})
        /\ at[1][Len(at[1])] \in Letters \cup Digits \cup {"_", "+", "-"}
        /\ n >= 2
        /\ Len(labels[n]) >= 2 /\ AllIn(labels[n], Letters)
        /\ \A k \in 1..(n - 1) :
              /\ labels[k] # <<>>
              /\ labels[k][1] \in Letters \cup Digits
              /\ AllIn(labels[k], Letters \cup Digits \cup {"-"})

\* new RegExp('^\\d+(\\.\\d{' + option + '})$')
isFloat(val, option) ==
    LET p == split(val, ".")
    IN  /\ Len(p) = 2
        /\ validateNumeric(p[1])
        /\ AllIn(p[2], Digits)
        /\ Len(p[2]) = DigitsValue(option)

\* '^\\+1(\\d{10})$'
isPhone(val) ==
    Len(val) = 12 /\ val[1] = "+" /\ val[2] = "1" /\ AllIn(SubSeq(val, 3, 12), Digits)

\* '^[0-9a-f]{8}-[0-9a-f]{4}-[0-5][0-9a-f]{3}-[089ab][0-9a-f]{3}-[0-9a-f]{12}$', flag i
isUuid(val) ==
    LET p == split(val, "-")
    IN  /\ Len(p) = 5
        /\ <<Len(p[1]), Len(p[2]), Len(p[3]), Len(p[4]), Len(p[5])>> = <<8, 4, 4, 4, 12>>
        /\ \A k \in 1..5 : AllIn(p[k], HexChars)
        /\ p[3][1] \in {"0", "1", "2", "3", "4", "5"}
        /\ p[4][1] \in {"0", "8", "9", "a", "b", "A", "B"}

\* validate of the match entry on a defined param.
matchValidate(val, matchingValue) ==
    IF includes(matchingValue, "|") THEN val = split(matchingValue, "|")[2]
    ELSE matchingValue = val

Bool(b) == IF b THEN "true" ELSE "false"

\* validators[name].validate(val, option): "true", "false", or the error it throws.
\* option is undefined when validate is called with the value alone.
validate(name, val, option) ==
    CASE name = k_alphaNumeric -> Bool(isAlphaNumeric(val))
      [] name = k_email -> Bool(isEmail(val))
      [] name = k_eq ->
            IF validateFunctionParam(option) THEN "InvalidParam"
            ELSE Bool(Number(option.s) = [nan |-> FALSE, num |-> Len(val), den |-> 1])
      [] name = k_float ->
            IF validateFunctionParam(option) THEN "InvalidParam"
            ELSE Bool(isFloat(val, option.s))
      [] name = k_gt ->
            IF validateFunctionParam(option) THEN "InvalidParam"
            ELSE Bool(NumGreater(Number(val), Number(option.s)))
      [] name = k_hasInt -> Bool(Some(val, Digits))
      [] name = k_in ->
            IF validateFunctionParam(option) THEN "InvalidParam"
            ELSE Bool(includes(split(option.s, ","), val))
      [] name = k_lower -> Bool(Some(val, LowerCase))
      [] name = k_lt ->
            IF validateFunctionParam(option) THEN "InvalidParam"
            ELSE Bool(NumGreater(Number(option.s), Number(val)))
      [] name = k_match ->
            IF ~option.def THEN "TypeError" ELSE Bool(matchValidate(val, option.s))
      [] name = k_max ->
            IF validateFunctionParam(option) THEN "InvalidParam"
            ELSE Bool(Len(val) <= DigitsValue(option.s))
      [] name = k_min ->
            IF validateFunctionParam(option) THEN "InvalidParam"
            ELSE Bool(Len(val) >= DigitsValue(option.s))
      [] name = k_mixedCase -> Bool(Some(val, LowerCase) /\ Some(val, UpperCase))
      [] name = k_numeric -> Bool(validateNumeric(val))
      [] name = k_phone -> Bool(isPhone(val))
      [] name = k_required -> Bool(trim(val) # <<>>)
      [] name = k_symbol -> Bool(Some(val, SymbolChars))
      [] name = k_upper -> Bool(Some(val, UpperCase))
      [] name = k_uuid -> Bool(isUuid(val))

\* validators[name].message(option): the default message of a rule.
message(name, option) ==
    CASE name = k_alphaNumeric -> <<Lit("Field must contain letters and numbers")>>
      [] name = k_email -> <<Lit("Field must be a valid email address")>>
      [] name = k_eq -> <<Lit("Field should be "), Str(ToStr(option)), Lit(" characters")>>
      [] name = k_float ->
            <<Lit("Field must be numeric with "), Str(ToStr(option)), Lit(" decimals")>>
      [] name = k_gt -> <<Lit("Field must be greater than "), Str(ToStr(option))>>
      [] name = k_hasInt -> <<Lit("Field must contain a number")>>
      [] name = k_in ->
            <<Lit("Field must contain one of the following: '"), Str(ToStr(option)), Lit("'")>>
      [] name = k_lower -> <<Lit("Field must contain a lowercase letter")>>
      [] name = k_lt -> <<Lit("Field must be less than "), Str(ToStr(option))>>
      [] name = k_match ->
            <<Lit("Field must match with '"), Str(split(option.s, "|")[1]), Lit("' field")>>
      [] name = k_max -> <<Lit("Field can not exceed "), Str(ToStr(option)), Lit(" characters")>>
      [] name = k_min -> <<Lit("Field should be "), Str(ToStr(option)), Lit(" or more characters")>>
      [] name = k_mixedCase ->
            <<Lit("Field must contain both uppercase and lowercase letters")>>
      [] name = k_numeric -> <<Lit("Field can only contain numbers")>>
      [] name = k_phone -> <<Lit("Field must be a valid phone number")>>
      [] name = k_required -> <<Lit("Field is required")>>
      [] name = k_symbol -> <<Lit("Field must contain a special character")>>
      [] name = k_upper -> <<Lit("Field must contain an uppercase letter")>>
      [] name = k_uuid -> <<Lit("Field must be a valid UUID")>>

----------------------------------------------------------------------------
\* Rule resolution and validateInput

UndefinedOptions == [def |-> FALSE, message |-> Undefined, pattern |-> Undefined]
Options(m, p) == [def |-> TRUE, message |-> m, pattern |-> p]

getValidatorAndParam(val) == split(val, ":")

\* A slip: the custom message is tested without trim().
getErrorMessage_untrimmed(name, param, options) ==
    IF options.def /\ options.message.def /\ options.message.s # <<>>
    THEN <<Str(options.message.s)>>
    ELSE message(name, param)

getErrorMessage(name, param, options) ==
    IF options.def /\ options.message.def /\ trim(options.message.s) # <<>>
    THEN <<Str(options.message.s)>>
    ELSE message(name, param)

\* An entry of Object.entries(rules): an array element (key: its index, value: a rule
\* identifier) or a property of a mapping (key: a rule identifier, value: its options).
ListEntry(idx, rule) ==
    [key |-> ToDecimal(idx - 1), isStr |-> TRUE, str |-> rule, opts |-> UndefinedOptions]
MapEntry(key, opts) == [key |-> key, isStr |-> FALSE, str |-> <<>>, opts |-> opts]

\* A string value read as options has no message and no pattern.
getRule(entry) ==
    IF validateNumeric(entry.key)
    THEN [rule |-> entry.str, options |-> UndefinedOptions]
    ELSE [rule |-> entry.key,
          options |-> IF entry.isStr THEN Options(Undefined, Undefined) ELSE entry.opts]

Threw(e) == [kind |-> "throw", err |-> e, valid |-> FALSE, message |-> <<>>]
Returned(v, m) == [kind |-> "ok", err |-> "", valid |-> v, message |-> m]

\* validators[validatorName]: an own entry, a member inherited from Object.prototype
\* (truthy, without validate), or nothing.
lookup(validatorName) ==
    IF validatorName \in ValidatorNames THEN "entry"
    ELSE IF validatorName \in InheritedNames THEN "inherited"
    ELSE "absent"

validateInput(rule, val, options) ==
    LET parts == getValidatorAndParam(rule)
        validatorName == parts[1]
        param == IF Len(parts) >= 2 THEN Def(parts[2]) ELSE Undefined
        \* `param ? validate(val, param) : validate(val)`: "" and undefined are falsy
        inputValid == validate(validatorName, val,
                               IF param.def /\ param.s # <<>> THEN param ELSE Undefined)
    IN  IF lookup(validatorName) = "absent" THEN Threw("UnknownRule")
        ELSE IF lookup(validatorName) = "inherited" THEN Threw("MissingPredicate")
        ELSE IF inputValid \notin {"true", "false"} THEN Threw(inputValid)
        ELSE IF inputValid = "false"
             THEN Returned(FALSE, getErrorMessage(validatorName, param, options))
        ELSE Returned(TRUE, <<>>)

----------------------------------------------------------------------------
\* The inputs drawn: field values, rule identifiers, options and rule sets

v_empty == <<>>
v_space == <<" ">>
v_a == <<"a">>
v_ab == <<"a", "b">>
v_abcde == <<"a", "b", "c", "d", "e">>
v_7 == <<"7">>
v_1p5 == <<"1", ".", "5">>
v_aB == <<"a", "B">>
v_a_colon_b == <<"a", ":", "b">>
Values == {v_empty, v_space, v_a, v_ab, v_abcde, v_7, v_1p5, v_aB, v_a_colon_b}

r_required == <<"r", "e", "q", "u", "i", "r", "e", "d">>
r_numeric == <<"n", "u", "m", "e", "r", "i", "c">>
r_mixedCase == <<"m", "i", "x", "e", "d", "C", "a", "s", "e">>
r_min5 == <<"m", "i", "n", ":", "5">>
r_max3 == <<"m", "a", "x", ":", "3">>
r_eq2 == <<"e", "q", ":", "2">>
r_gt5 == <<"g", "t", ":", "5">>
r_lt5 == <<"l", "t", ":", "5">>
r_float1 == <<"f", "l", "o", "a", "t", ":", "1">>
r_min_a == <<"m", "i", "n", ":", "a">>
r_max_a == <<"m", "a", "x", ":", "a">>
r_eq_a == <<"e", "q", ":", "a">>
r_gt_a == <<"g", "t", ":", "a">>
r_lt_a == <<"l", "t", ":", "a">>
r_float_a == <<"f", "l", "o", "a", "t", ":", "a">>
r_min == <<"m", "i", "n">>
r_min_colon == <<"m", "i", "n", ":">>
r_max5_colon_a == <<"m", "a", "x", ":", "5", ":", "a">>
r_in_a_b == <<"i", "n", ":", "a", ",", "b">>
r_in7 == <<"i", "n", ":", "7">>
r_match_a == <<"m", "a", "t", "c", "h", ":", "a">>
r_match_Pw_a == <<"m", "a", "t", "c", "h", ":", "P", "w", "|", "a">>
r_match_Pw_a_colon_b == <<"m", "a", "t", "c", "h", ":", "P", "w", "|", "a", ":", "b">>
r_match_colon == <<"m", "a", "t", "c", "h", ":">>
r_foo == <<"f", "o", "o">>
r_required_x == <<"r", "e", "q", "u", "i", "r", "e", "d", ":", "x">>
r_toString == <<"t", "o", "S", "t", "r", "i", "n", "g">>

\* Identifiers validateInput is called with directly.
RuleIds == {r_required, r_numeric, r_mixedCase, r_min5, r_max3, r_eq2,
            r_gt5, r_lt5, r_float1, r_min_a, r_max_a, r_eq_a,
            r_gt_a, r_lt_a, r_float_a, r_min, r_min_colon, r_max5_colon_a,
            r_in_a_b, r_in7, r_match_a, r_match_Pw_a, r_match_Pw_a_colon_b, r_match_colon,
            r_foo, r_toString, r_required_x}

\* Identifiers the list form of a rule set is drawn from.
ListRules == RuleIds

NoOptions == Options(Undefined, Undefined)
CustomMessage == Options(Def(<<"C", "u">>), Undefined)
BlankMessage == Options(Def(<<" ">>), Undefined)
Pattern5 == Options(Undefined, Def(<<"5">>))
OptionsDrawn == {UndefinedOptions, NoOptions, CustomMessage, BlankMessage, Pattern5}

\* Properties the mapping form of a rule set is drawn from.
MapProps ==
    {MapEntry(r_required, o) : o \in {NoOptions, CustomMessage, BlankMessage}}
    \cup {MapEntry(r_min5, o) : o \in {NoOptions, CustomMessage}}
    \cup {MapEntry(k, NoOptions) : k \in {r_max3, r_numeric, r_foo, r_max_a, r_lt5,
                                          r_in_a_b, r_match_Pw_a}}
    \cup {MapEntry(k, Pattern5) : k \in {r_min, r_min_colon}}

\* Object.entries of an array: its elements under their indices, in order.
ListSets ==
    UNION {{[k \in 1..n |-> ListEntry(k, f[k])] : f \in [1..n -> ListRules]} : n \in 0..MaxRules}

\* Object.entries of a mapping whose keys are rule identifiers: the properties in
\* insertion order, no key twice.
MapSets ==
    UNION {{f \in [1..n -> MapProps] : \A j, k \in 1..n : j # k => f[j].key # f[k].key}
           : n \in 0..MaxRules}

RuleSets == ListSets \cup MapSets

----------------------------------------------------------------------------
\* validateRules, step by step, and a direct call of validateInput

VARIABLES
    api,         \* the exported function called: "validateRules" or "validateInput"
    inputValue,  \* the value validated
    rules,       \* validateRules: Object.entries(rules)
    ruleArg,     \* validateInput: [rule, options]
    pc,          \* "start", "loop" (in the for loop) or "done"
    i,           \* the entry the for loop is at
    tempValid,   \* validateRules' tempValid
    error,       \* validateRules' error
    calls,       \* what each call of validateInput made so far gave, in order
    result       \* what the exported function returned or threw

vars == <<api, inputValue, rules, ruleArg, pc, i, tempValid, error, calls, result>>

Null == [null |-> TRUE, text |-> <<>>]
Text(m) == [null |-> FALSE, text |-> m]

NoResult == [kind |-> "none", err |-> "", valid |-> FALSE, error |-> Null]
Return(v, e) == [kind |-> "return", err |-> "", valid |-> v, error |-> e]
Throw(e) == [kind |-> "throw", err |-> e, valid |-> FALSE, error |-> Null]

NoArg == [rule |-> <<>>, options |-> UndefinedOptions]

\* A slip: only the empty string counts as no value.
isBlank_emptyOnly(val) == val = <<>>

\* !inputValue || !inputValue.toString().trim().length
isBlank(val) == val = <<>> \/ Len(trim(val)) = 0

\* A slip: the early return does not look for the required rule.
bypass_ignoresRequired(val, rs) == isBlank(val)

\* The guard of the early return of validateRules.
bypass(val, rs) ==
    /\ ~\E k \in 1..Len(rs) : rs[k].isStr /\ rs[k].str = k_required
    /\ ~\E k \in 1..Len(rs) : rs[k].key = k_required
    /\ isBlank(val)

\* A slip: the result of the last rule overwrites a failure recorded before it.
aggregate_lastWins(tv, err, r) ==
    IF ~r.valid THEN [tempValid |-> FALSE, error |-> Text(r.message)]
    ELSE [tempValid |-> TRUE, error |-> Null]

\* A slip: a later failure overwrites the message of the first one.
aggregate_lastFailure(tv, err, r) ==
    IF ~r.valid THEN [tempValid |-> FALSE, error |-> Text(r.message)]
    ELSE IF ~tv THEN [tempValid |-> tv, error |-> err]
    ELSE [tempValid |-> TRUE, error |-> Null]

\* The body of the for loop after validateInput returned r: the new tempValid and error.
aggregate(tv, err, r) ==
    IF ~tv THEN [tempValid |-> tv, error |-> err]
    ELSE IF ~r.valid /\ tv THEN [tempValid |-> FALSE, error |-> Text(r.message)]
    ELSE [tempValid |-> TRUE, error |-> Null]

Init ==
    /\ inputValue \in Values
    /\ \/ api = "validateRules" /\ rules \in RuleSets /\ ruleArg = NoArg
       \/ /\ api = "validateInput"
          /\ rules = <<>>
          /\ ruleArg \in [rule : RuleIds, options : OptionsDrawn]
    /\ pc = "start"
    /\ i = 1
    /\ tempValid = TRUE
    /\ error = Null
    /\ calls = <<>>
    /\ result = NoResult

\* validateInput called by the user.
EvaluateRule ==
    /\ api = "validateInput" /\ pc = "start"
    /\ LET r == validateInput(ruleArg.rule, inputValue, ruleArg.options)
       IN  /\ calls' = <<r>>
           /\ result' = IF r.kind = "throw" THEN Throw(r.err)
                        ELSE Return(r.valid, Text(r.message))
    /\ pc' = "done"
    /\ UNCHANGED <<api, inputValue, rules, ruleArg, i, tempValid, error>>

\* validateRules returns early.
Bypass ==
    /\ api = "validateRules" /\ pc = "start"
    /\ bypass(inputValue, rules)
    /\ result' = Return(tempValid, error)
    /\ pc' = "done"
    /\ UNCHANGED <<api, inputValue, rules, ruleArg, i, tempValid, error, calls>>

\* validateRules enters the for loop.
EnterLoop ==
    /\ api = "validateRules" /\ pc = "start"
    /\ ~bypass(inputValue, rules)
    /\ pc' = "loop"
    /\ UNCHANGED <<api, inputValue, rules, ruleArg, i, tempValid, error, calls, result>>

\* One iteration of the for loop: validateInput is called first, whatever tempValid is.
Iterate ==
    /\ pc = "loop" /\ i <= Len(rules)
    /\ LET g == getRule(rules[i])
           r == validateInput(g.rule, inputValue, g.options)
           a == aggregate(tempValid, error, r)
       IN  /\ calls' = Append(calls, r)
           /\ IF r.kind = "throw"
              THEN /\ result' = Throw(r.err)
                   /\ pc' = "done"
                   /\ UNCHANGED <<i, tempValid, error>>
              ELSE /\ tempValid' = a.tempValid
                   /\ error' = a.error
                   /\ i' = i + 1
                   /\ UNCHANGED <<pc, result>>
    /\ UNCHANGED <<api, inputValue, rules, ruleArg>>

\* The for loop is over: validateRules returns {error, valid: tempValid}.
ReturnVerdict ==
    /\ pc = "loop" /\ i > Len(rules)
    /\ result' = Return(tempValid, error)
    /\ pc' = "done"
    /\ UNCHANGED <<api, inputValue, rules, ruleArg, i, tempValid, error, calls>>

Next == EvaluateRule \/ Bypass \/ EnterLoop \/ Iterate \/ ReturnVerdict

Spec == Init /\ [][Next]_vars

----------------------------------------------------------------------------
\* The vocabulary of the properties

\* The rule identifier an entry of a rule set declares: the element of a list, the
\* key of a mapping.
Identifier(e) == IF e.isStr THEN e.str ELSE e.key

\* What follows the first separator of s; undefined without one.
AfterFirst(s, sep) ==
    IF includes(s, sep)
    THEN LET k == CHOOSE k \in 1..Len(s) : s[k] = sep /\ \A j \in 1..(k - 1) : s[j] # sep
         IN  Def(SubSeq(s, k + 1, Len(s)))
    ELSE Undefined

\* The name of an identifier (what precedes its first colon) and its param
\* (everything after its first colon).
NameOf(id) == split(id, ":")[1]
ParamOf(id) == AfterFirst(id, ":")

NumericRules == {k_eq, k_float, k_gt, k_lt, k_max, k_min}

\* Empty or made of white space only.
Blank(val) == AllIn(val, WhiteSpace)

RulesDone == api = "validateRules" /\ pc = "done"

\* The rule set declares a rule named required.
DeclaresRequired == \E k \in 1..Len(rules) : NameOf(Identifier(rules[k])) = k_required

\* The rule set contains the identifier required itself, as an element or as a key.
ContainsRequired == \E k \in 1..Len(rules) : Identifier(rules[k]) = k_required

\* The bypass applies: an empty or white-space value and no identifier required.
BypassCase == Blank(inputValue) /\ ~ContainsRequired

\* The rule and the options the k-th call of validateInput was given.
CalledRule(k) == IF api = "validateInput" THEN ruleArg.rule ELSE getRule(rules[k]).rule
CalledOptions(k) ==
    IF api = "validateInput" THEN ruleArg.options ELSE getRule(rules[k]).options

Failed(r) == r.kind = "ok" /\ ~r.valid
Passed(r) == r.kind = "ok" /\ r.valid

\* What evaluating the k-th rule of the rule set on the value gives.
Evaluated(k) ==
    validateInput(getRule(rules[k]).rule, inputValue, getRule(rules[k]).options)

\* The first rule of the rule set, in declaration order, whose predicate fails.
FirstFailing == CHOOSE k \in 1..Len(rules) :
                    Failed(Evaluated(k)) /\ \A j \in 1..(k - 1) : ~Failed(Evaluated(j))

RequiredDefault == <<Lit("Field is required")>>

\* The messages a failing required rule declared by entry e may report: the default
\* one, or the custom message of its options.
RequiredMessages(e) ==
    {Text(RequiredDefault)}
    \cup (IF ~e.isStr /\ e.opts.def /\ e.opts.message.def
          THEN {Text(<<Str(e.opts.message.s)>>)} ELSE {})

----------------------------------------------------------------------------
\* C1

\* C1: a rule set that declares no rule named required, evaluated on the empty string
\* or on a string of white space, returns {valid: true, error: null}, and no rule of
\* the set is evaluated.
C1_Bypass ==
    (RulesDone /\ ~DeclaresRequired /\ Blank(inputValue))
        => (result = Return(TRUE, Null) /\ calls = <<>>)

\* C1 happens: a white-space value, and a rule set whose rule would have failed on it.
C1_Witness ==
    /\ RulesDone /\ ~DeclaresRequired /\ inputValue = v_space
    /\ Len(rules) >= 1 /\ Failed(Evaluated(1))
    /\ result = Return(TRUE, Null)

\* C2 as stated: a rule set that contains required, evaluated on "", returns
\* valid = false with the message of the required rule, wherever required stands
\* (read for the rule sets none of whose rules raises).
C2_Original ==
    (RulesDone /\ ContainsRequired /\ inputValue = <<>>
     /\ \A k \in 1..Len(rules) : Evaluated(k).kind = "ok")
        => /\ result.kind = "return"
           /\ ~result.valid
           /\ \E k \in 1..Len(rules) :
                 /\ Identifier(rules[k]) = k_required
                 /\ result.error \in RequiredMessages(rules[k])

\* C2, amended: a rule set that contains the identifier required, evaluated on "", never returns
\* valid = true: a rule raises, or the verdict is valid = false with the message of
\* the first failing rule, which is the message of required when no rule declared
\* before it fails on "".
C2_RequiredOnEmpty ==
    (RulesDone /\ ContainsRequired /\ inputValue = <<>>)
        => \/ /\ result.kind = "throw"
              /\ calls # <<>> /\ calls[Len(calls)].kind = "throw"
           \/ /\ result.kind = "return"
              /\ ~result.valid
              /\ Len(calls) = Len(rules)
              /\ result.error = Text(calls[FirstFailing].message)
              /\ \A k \in 1..Len(rules) :
                    (Identifier(rules[k]) = k_required /\ \A j \in 1..(k - 1) : Passed(calls[j]))
                        => result.error \in RequiredMessages(rules[k])

\* C2 happens: required declared after a rule that passes on "", and reported.
C2_Witness ==
    /\ RulesDone /\ inputValue = <<>>
    /\ Len(rules) = 2 /\ Identifier(rules[2]) = k_required
    /\ Len(calls) = 2 /\ Passed(calls[1])
    /\ result = Return(FALSE, Text(RequiredDefault))

\* C3 as stated: for every value and every rule set whose rules all evaluate
\* (registered, params accepted), the verdict is valid = true with error = null iff
\* no rule's predicate fails, and otherwise valid = false with the message of the
\* first failing rule in declaration order.
C3_Original ==
    (RulesDone /\ \A k \in 1..Len(rules) : Evaluated(k).kind = "ok")
        => IF \A k \in 1..Len(rules) : Passed(Evaluated(k))
           THEN result = Return(TRUE, Null)
           ELSE result = Return(FALSE, Text(Evaluated(FirstFailing).message))

\* C3, amended: the same, except where the bypass applies (an empty or white-space
\* value and no identifier required in the rule set), where the verdict is valid whatever the predicates say.
C3_FirstFailureWins ==
    (RulesDone /\ (\A k \in 1..Len(rules) : Evaluated(k).kind = "ok")
     /\ ~BypassCase)
        => IF \A k \in 1..Len(rules) : Passed(Evaluated(k))
           THEN result = Return(TRUE, Null)
           ELSE result = Return(FALSE, Text(Evaluated(FirstFailing).message))

\* C3 happens: [min:5, max:3] on "ab", two failing rules, the message of min reported.
C3_Witness ==
    /\ RulesDone /\ inputValue = v_ab
    /\ Len(rules) = 2 /\ Identifier(rules[1]) = r_min5 /\ Identifier(rules[2]) = r_max3
    /\ rules[1].isStr
    /\ result = Return(FALSE, Text(<<Lit("Field should be "), Str(<<"5">>),
                                     Lit(" or more characters")>>))

\* C4: a numeric-param rule (eq, max, min, gt, lt, float) given a param that is not a
\* string of decimal digits raises InvalidParam on every value and never returns a
\* result, and the error ends the validateRules call that evaluated it.
C4_Original ==
    \A k \in 1..Len(calls) :
        LET p == ParamOf(CalledRule(k))
        IN  (NameOf(CalledRule(k)) \in NumericRules /\ ~(p.def /\ validateNumeric(p.s)))
                => /\ calls[k] = Threw("InvalidParam")
                   /\ pc = "done" /\ result = Throw("InvalidParam")

\* The identifiers whose name is not registered.
Unregistered(id) == NameOf(id) \notin ValidatorNames

\* C5 as stated: validateInput raises UnknownRule for an identifier whose name is not
\* registered, on every value, and validateRules over a rule set that contains such
\* an identifier raises it on every value instead of returning a verdict.
C5_Original ==
    /\ \A k \in 1..Len(calls) :
          Unregistered(CalledRule(k)) => calls[k] = Threw("UnknownRule")
    /\ (RulesDone /\ \E k \in 1..Len(rules) : Unregistered(Identifier(rules[k])))
          => result = Throw("UnknownRule")

\* The first entry of the rule set whose name is not registered.
FirstUnregistered == CHOOSE k \in 1..Len(rules) :
                         /\ Unregistered(Identifier(rules[k]))
                         /\ \A j \in 1..(k - 1) : ~Unregistered(Identifier(rules[j]))

\* The error validateInput raises for an unregistered name.
ErrorOfUnregistered(id) ==
    IF NameOf(id) \in InheritedNames THEN "MissingPredicate" ELSE "UnknownRule"

\* C5, amended: an unregistered name evaluated is always an error: validateInput
\* raises UnknownRule (MissingPredicate when the name is a member every object
\* inherits, such as toString) on every value; validateRules over a rule set that
\* contains such an identifier raises instead of returning a verdict, that error
\* unless an earlier rule raised before it, except where the bypass applies (an
\* empty or white-space value and no identifier required in the rule set): there it
\* returns valid.
C5_UnknownRuleRaises ==
    /\ \A k \in 1..Len(calls) :
          Unregistered(CalledRule(k)) => calls[k] = Threw(ErrorOfUnregistered(CalledRule(k)))
    /\ (RulesDone /\ (\E k \in 1..Len(rules) : Unregistered(Identifier(rules[k])))
        /\ ~BypassCase)
          => /\ result.kind = "throw"
             /\ Len(calls) <= FirstUnregistered
             /\ Len(calls) = FirstUnregistered
                   => result = Throw(ErrorOfUnregistered(Identifier(rules[FirstUnregistered])))
             /\ result.err = calls[Len(calls)].err

\* C5 happens: the unregistered rule stands after a rule that failed, and raises.
C5_Witness ==
    /\ RulesDone /\ inputValue = v_ab
    /\ Len(rules) = 2 /\ Identifier(rules[2]) = r_foo
    /\ Len(calls) = 2 /\ Failed(calls[1])
    /\ result = Throw("UnknownRule")

\* C6: in the mapping form, the pattern of a parameterized rule's options supplies
\* its param: validateRules(v, {min: {pattern: n}}) gives the verdict and the message
\* of the list form ["min:n"] (on a value that is not blank, what validateInput gives
\* for "min:n"); "abc"-like short values get "Field should be 5 or more characters".
C6_Original ==
    (RulesDone /\ Len(rules) = 1 /\ ~rules[1].isStr
     /\ NameOf(rules[1].key) = k_min /\ rules[1].opts.pattern.def
     /\ ~Blank(inputValue))
        => LET r == validateInput(k_min \o <<":">> \o rules[1].opts.pattern.s,
                                  inputValue, UndefinedOptions)
           IN  result = Return(r.valid, IF r.valid THEN Null ELSE Text(r.message))

\* C7 as stated: when a rule fails, a non-empty options.message is reported as it is,
\* and otherwise the default message of the rule with its param.
C7_Original ==
    \A k \in 1..Len(calls) :
        Failed(calls[k]) =>
            LET o == CalledOptions(k)
                parts == getValidatorAndParam(CalledRule(k))
                param == IF Len(parts) >= 2 THEN Def(parts[2]) ELSE Undefined
            IN  calls[k].message =
                    IF o.def /\ o.message.def /\ o.message.s # <<>>
                    THEN <<Str(o.message.s)>>
                    ELSE message(parts[1], param)

\* C7, amended: when a rule fails, an options.message that is not blank (not empty
\* once trimmed) is reported as it is, with nothing substituted; otherwise, also for
\* a message of white space only, the default message of the rule is reported, with
\* the param validateInput read from the identifier ("Field should be 5 or more
\* characters" for min:5).
C7_MessageSelection ==
    \A k \in 1..Len(calls) :
        Failed(calls[k]) =>
            LET o == CalledOptions(k)
                parts == getValidatorAndParam(CalledRule(k))
                param == IF Len(parts) >= 2 THEN Def(parts[2]) ELSE Undefined
            IN  /\ calls[k].message =
                      IF o.def /\ o.message.def /\ ~Blank(o.message.s)
                      THEN <<Str(o.message.s)>>
                      ELSE message(parts[1], param)
                /\ (CalledRule(k) = r_min5 /\ ~(o.def /\ o.message.def /\ ~Blank(o.message.s)))
                      => calls[k].message = <<Lit("Field should be "), Str(<<"5">>),
                                              Lit(" or more characters")>>

\* C7 happens: a failing rule with a custom message, reported as it is.
C7_Witness ==
    /\ pc = "done" /\ Len(calls) >= 1 /\ Failed(calls[1])
    /\ CalledOptions(1) = CustomMessage
    /\ calls[1].message = <<Str(<<"C", "u">>)>>

\* C8: "match:label|o" on v is valid iff v = o, the param being everything after the
\* first colon and o everything after its first pipe; when it fails, the default
\* message names the label; "match:p", p without a pipe, is valid iff v = p (read
\* for a param that is not empty).
C8_Original ==
    \A k \in 1..Len(calls) :
        (NameOf(CalledRule(k)) = k_match /\ ParamOf(CalledRule(k)).def
         /\ ParamOf(CalledRule(k)).s # <<>>) =>
            LET p == ParamOf(CalledRule(k)).s
                other == IF includes(p, "|") THEN AfterFirst(p, "|").s ELSE p
            IN  /\ calls[k].kind = "ok"
                /\ calls[k].valid <=> (inputValue = other)
                /\ (~calls[k].valid /\ ~CalledOptions(k).message.def)
                      => calls[k].message = <<Lit("Field must match with '"),
                                              Str(split(p, "|")[1]), Lit("' field")>>

\* C9: "in:L" on v is valid iff v is one of the comma-separated tokens of L, and
\* fails with the message of in otherwise; a param that is not numeric is accepted.
C9_Original ==
    \A k \in 1..Len(calls) :
        (NameOf(CalledRule(k)) = k_in /\ ParamOf(CalledRule(k)).def
         /\ ParamOf(CalledRule(k)).s # <<>>) =>
            LET L == ParamOf(CalledRule(k)).s
            IN  /\ calls[k].kind = "ok"
                /\ calls[k].valid <=> includes(split(L, ","), inputValue)

\* C10 as stated: once a rule of the rule set has failed, the rules declared after it
\* are not evaluated: the outcome of validateRules is the verdict of the first failing
\* rule, whatever the rules after it are (none of them can raise).
C10_Original ==
    RulesDone =>
        \A k \in 1..Len(calls) :
            (Failed(calls[k]) /\ \A j \in 1..(k - 1) : ~Failed(calls[j]))
                => result = Return(FALSE, Text(calls[k].message))

\* C10, amended: once a rule of the rule set has failed, the verdicts of the rules
\* declared after it are discarded, and a verdict returned is that of the first
\* failing rule; the later rules are still evaluated, every one of them before a
\* verdict is returned, and an error one of them raises ends the call.
C10_LaterVerdictsDiscarded ==
    RulesDone =>
        \A k \in 1..Len(calls) :
            (Failed(calls[k]) /\ \A j \in 1..(k - 1) : ~Failed(calls[j]))
                => \/ /\ result = Return(FALSE, Text(calls[k].message))
                      /\ Len(calls) = Len(rules)
                   \/ /\ Len(calls) > k
                      /\ calls[Len(calls)].kind = "throw"
                      /\ result = Throw(calls[Len(calls)].err)

\* C10 happens: numeric fails on "a", max:3 declared after it is evaluated and passes,
\* and the verdict is the failure of numeric.
C10_Witness ==
    /\ RulesDone /\ inputValue = v_a
    /\ Len(rules) = 2 /\ Identifier(rules[1]) = r_numeric /\ Identifier(rules[2]) = r_max3
    /\ Len(calls) = 2 /\ Failed(calls[1]) /\ Passed(calls[2])
    /\ result = Return(FALSE, Text(<<Lit("Field can only contain numbers")>>))

====
